---- MODULE Spec2Model ----
(***************************************************************************)
(* A model of dascrubber_wrapper.py: the read-renaming registry, the       *)
(* fixed sequence of Dazzler stage invocations with their derived          *)
(* options, the reverse translation of read names, and genome-size         *)
(* parsing.  Strings are sequences of one-character strings, so that       *)
(* split, strip, startswith, str and int are modelled by what they do.     *)
(***************************************************************************)
EXTENDS Integers, Sequences, FiniteSets, TLC

\* ------------------------------------------------------------------------
\* Bounds of the model
\* ------------------------------------------------------------------------
\* longest genome-size string drawn in SpecGS
MaxGsLen == 4

\* most records read from the input file
MaxReads == 3

\* most records read from scrubbed_reads.fasta
MaxOut == 2

\* ------------------------------------------------------------------------
\* Python string primitives
\* ------------------------------------------------------------------------
DigitChars == {"0", "1", "2", "3", "4", "5", "6", "7", "8", "9"}

DigitVal(c) ==
    CASE c = "0" -> 0 [] c = "1" -> 1 [] c = "2" -> 2 [] c = "3" -> 3
      [] c = "4" -> 4 [] c = "5" -> 5 [] c = "6" -> 6 [] c = "7" -> 7
      [] c = "8" -> 8 [] c = "9" -> 9

DigitChar(d) ==
    CASE d = 0 -> "0" [] d = 1 -> "1" [] d = 2 -> "2" [] d = 3 -> "3"
      [] d = 4 -> "4" [] d = 5 -> "5" [] d = 6 -> "6" [] d = 7 -> "7"
      [] d = 8 -> "8" [] d = 9 -> "9"

\* str.lower() on one character (the letters that occur in the inputs)
LowerChar(c) ==
    CASE c = "G" -> "g" [] c = "M" -> "m" [] c = "K" -> "k" [] OTHER -> c

PyLower(s) == [i \in 1..Len(s) |-> LowerChar(s[i])]

\* s[a:] for a 0-based start a
DropFirst(s, a) == SubSeq(s, a + 1, Len(s))

\* s[:-1]
DropLast(s) == SubSeq(s, 1, Len(s) - 1)

\* c in s
HasChar(s, c) == \E i \in 1..Len(s) : s[i] = c

\* the digits of a string of digit characters, as numbers
DigitsOf(s) == [i \in 1..Len(s) |-> DigitVal(s[i])]

AllDigitChars(s) == \A i \in 1..Len(s) : s[i] \in DigitChars

\* ------------------------------------------------------------------------
\* Unbounded naturals as digit sequences (Python ints do not overflow;
\* 3G = 3000000000 exceeds a 32-bit integer).  Zero is <<0>>.
\* ------------------------------------------------------------------------
RECURSIVE StripZeros(_)
StripZeros(ds) ==
    IF Len(ds) = 0 THEN <<0>>
    ELSE IF Len(ds) > 1 /\ ds[1] = 0 THEN StripZeros(Tail(ds))
    ELSE ds

Zeros(n) == [i \in 1..n |-> 0]

RECURSIVE IncDigits(_)
IncDigits(ds) ==
    IF Len(ds) = 0 THEN <<1>>
    ELSE IF ds[Len(ds)] < 9
         THEN [ds EXCEPT ![Len(ds)] = ds[Len(ds)] + 1]
         ELSE Append(IncDigits(DropLast(ds)), 0)

IsZeroDigits(ds) == \A i \in 1..Len(ds) : ds[i] = 0

\* the decimal digit characters of a string as a natural number
RECURSIVE NatOfDigitChars(_)
NatOfDigitChars(s) ==
    IF Len(s) = 0 THEN 0
    ELSE 10 * NatOfDigitChars(DropLast(s)) + DigitVal(s[Len(s)])

\* the decimal digits of a natural number
RECURSIVE NatToDigits(_)
NatToDigits(n) ==
    IF n < 10 THEN <<n>> ELSE Append(NatToDigits(n \div 10), n % 10)

\* a digit sequence as a natural number (for values that fit)
RECURSIVE DigitsToNat(_)
DigitsToNat(ds) ==
    IF Len(ds) = 0 THEN 0 ELSE 10 * DigitsToNat(DropLast(ds)) + ds[Len(ds)]

\* ------------------------------------------------------------------------
\* parse_genome_size
\* ------------------------------------------------------------------------
HasSign(s) == Len(s) > 0 /\ s[1] \in {"-", "+"}

Unsigned(s) == IF HasSign(s) THEN Tail(s) ELSE s

IsNegative(s) == Len(s) > 0 /\ s[1] = "-"

\* int(value_str) succeeds: an optional sign and at least one digit
PyIntOk(s) == Len(Unsigned(s)) > 0 /\ AllDigitChars(Unsigned(s))

DotPos(s) == CHOOSE i \in 1..Len(s) : s[i] = "."

\* float(value_str) succeeds for a string that contains '.': an optional
\* sign, digits around exactly one '.', at least one digit
PyFloatOk(s) ==
    LET b == Unsigned(s) IN
    /\ HasChar(b, ".")
    /\ \A i \in 1..Len(b) : b[i] \in DigitChars \/ i = DotPos(b)
    /\ Len(b) > 1

\* the digits before and after the '.' of a valid float string
FloatIntPart(s) == DigitsOf(SubSeq(Unsigned(s), 1, DotPos(Unsigned(s)) - 1))

FloatFracPart(s) ==
    DigitsOf(SubSeq(Unsigned(s), DotPos(Unsigned(s)) + 1, Len(Unsigned(s))))

\* round(): to the nearest integer, a tie to the even one
RoundHalfEven(ip, fp) ==
    LET i0 == StripZeros(ip)
        odd == i0[Len(i0)] % 2 = 1
        up == /\ Len(fp) > 0
              /\ \/ fp[1] > 5
                 \/ fp[1] = 5 /\ ~IsZeroDigits(Tail(fp))
                 \/ fp[1] = 5 /\ IsZeroDigits(Tail(fp)) /\ odd
    IN  IF up THEN IncDigits(i0) ELSE i0

\* int(round(float(value_str) * 10^e)): the decimal point moves e places
FloatTimesPow10(s, e) ==
    LET ip == FloatIntPart(s)
        fp == FloatFracPart(s) \o Zeros(e)
    IN  RoundHalfEven(ip \o SubSeq(fp, 1, e), DropFirst(fp, e))

\* int(value_str) * 10^e
IntTimesPow10(s, e) == StripZeros(DigitsOf(Unsigned(s)) \o Zeros(e))

\* a faulty variant: the 'm' suffix multiplies by 1000
SuffixExponentNoMega(c) ==
    CASE c = "g" -> 9 [] c = "m" -> 3 [] c = "k" -> 3 [] OTHER -> 0

\* lines 178-189: the multiplier as a power of ten
SuffixExponent(c) ==
    CASE c = "g" -> 9 [] c = "m" -> 6 [] c = "k" -> 3 [] OTHER -> 0

ValueStr(s) ==
    IF s[Len(s)] \in {"g", "m", "k"} THEN DropLast(s) ELSE s

\* genome_size < 1, < 100, > 100000000000 on [neg, digits]
LessThanOne(neg, ds) == neg \/ ds = <<0>>

LessThanHundred(ds) == Len(ds) <= 2

HundredBillion == <<1>> \o Zeros(11)

MoreThanHundredBillion(ds) ==
    Len(ds) > 12 \/ (Len(ds) = 12 /\ ds # HundredBillion)

GsFatal(msg) == [status |-> msg, neg |-> FALSE, digits |-> <<0>>, warning |-> "none"]

\* the outcome of parse_genome_size(genome_size_str)
parse_genome_size(genome_size_str) ==
    LET s == PyLower(genome_size_str) IN
    IF Len(s) = 0 THEN GsFatal("could not parse genome size")
    ELSE
    LET v == ValueStr(s)
        e == SuffixExponent(s[Len(s)])
    IN
    IF ~(IF HasChar(v, ".") THEN PyFloatOk(v) ELSE PyIntOk(v))
    THEN GsFatal("could not parse genome size")
    ELSE
    LET ds == IF HasChar(v, ".") THEN FloatTimesPow10(v, e) ELSE IntTimesPow10(v, e)
        neg == IsNegative(v) /\ ds # <<0>>
    IN
    IF LessThanOne(neg, ds) THEN GsFatal("genome size must be a positive value")
    ELSE [status |-> "ok", neg |-> neg, digits |-> ds,
          warning |-> IF LessThanHundred(ds) THEN "small"
                      ELSE IF MoreThanHundredBillion(ds) THEN "large"
                      ELSE "none"]

\* ------------------------------------------------------------------------
\* State
\* ------------------------------------------------------------------------
VARIABLES
    argv,               \* the command line: genome size, repeat depth, keep, option strings
    pc,                 \* the position of main(), "exited" once the process ended
    exit_code,          \* the exit status of the process (-1 while it runs)
    exit_msg,           \* the message of sys.exit, or the uncaught exception
    args,               \* the result of get_arguments()
    missing_tools,      \* check_tools_exist: the tools not found on the path
    tempdir,            \* "absent", "present" or "deleted"
    files,              \* the files of the temporary directory
    input_opened,       \* whether the input read file has been opened
    file_type,          \* "FASTA" or "FASTQ"
    first_char,         \* the first character of the input read file
    read_name_dict,     \* read number -> old name
    read_comment_dict,  \* read number -> old comment, or None
    read_names,         \* the old names seen so far
    base_total,         \* the sum of the sequence lengths
    renamed_reads,      \* the headers written to renamed_reads.fasta
    depth,              \* <<base_total, genome_size>> once ingestion is over
    commands,           \* the commands given to run_command, with their exit status
    dasqv_output,       \* the full_output run_command returned for DASqv
    stdout,             \* the lines printed to standard output
    input_records,      \* history: the records of the input file read so far
    scrubbed_names,     \* history: the headers of scrubbed_reads.fasta read so far
    gs_str,             \* SpecGS: the genome-size string given to parse_genome_size
    gs_out              \* SpecGS: the outcome of parse_genome_size, status "pending" before

mainvars == <<argv, pc, exit_code, exit_msg, args, missing_tools, tempdir, files,
              input_opened, file_type, first_char, read_name_dict,
              read_comment_dict, read_names, base_total, renamed_reads, depth,
              commands, dasqv_output, stdout, input_records, scrubbed_names>>

gsvars == <<gs_str, gs_out>>

vars == <<mainvars, gsvars>>

\* ------------------------------------------------------------------------
\* More string primitives
\* ------------------------------------------------------------------------
\* Python's None, distinct from every string
None == <<"<None>">>

FirstIndex(s, c) == CHOOSE i \in 1..Len(s) : s[i] = c /\ \A j \in 1..(i - 1) : s[j] # c

\* s.split(c)
RECURSIVE Split(_, _)
Split(s, c) ==
    IF ~HasChar(s, c) THEN <<s>>
    ELSE <<SubSeq(s, 1, FirstIndex(s, c) - 1)>> \o Split(DropFirst(s, FirstIndex(s, c)), c)

\* s.split(c, 1)
Split1(s, c) ==
    IF ~HasChar(s, c) THEN <<s>>
    ELSE <<SubSeq(s, 1, FirstIndex(s, c) - 1), DropFirst(s, FirstIndex(s, c))>>

Whitespace == {" ", "\n", "\t"}

RECURSIVE LStrip(_)
LStrip(s) == IF Len(s) > 0 /\ s[1] \in Whitespace THEN LStrip(Tail(s)) ELSE s

RECURSIVE RStrip(_)
RStrip(s) == IF Len(s) > 0 /\ s[Len(s)] \in Whitespace THEN RStrip(DropLast(s)) ELSE s

\* s.strip()
Strip(s) == LStrip(RStrip(s))

\* x.startswith(prefix)
StartsWith(x, prefix) ==
    Len(x) >= Len(prefix) /\ SubSeq(x, 1, Len(prefix)) = prefix

\* str(n) for a natural number n
PyStr(n) == LET ds == NatToDigits(n) IN [i \in 1..Len(ds) |-> DigitChar(ds[i])]

\* int(s) succeeds / its value, for a string without sign
PyInt(s) == NatOfDigitChars(s)

\* int(round(num / den)) for naturals num, den > 0: a tie goes to the even one
RoundDiv(num, den) ==
    LET q == num \div den
        r == num % den
    IN  IF 2 * r > den \/ (2 * r = den /\ q % 2 = 1) THEN q + 1 ELSE q

\* ------------------------------------------------------------------------
\* get_arguments
\* ------------------------------------------------------------------------
OptionNames == {"dbsplit", "daligner", "repmask", "datander", "tanmask",
                "dascover", "dasqv", "dastrim", "daspatch", "dasedit"}

\* lines 154-158
process_extra_options(extra_options) ==
    IF extra_options # None THEN Split(extra_options, " ") ELSE <<>>

NoArgs == [genome_size |-> 0, repeat_depth |-> 0, keep |-> FALSE,
           options |-> [o \in OptionNames |-> <<>>]]

\* the option strings the model draws, as profiles of one command line:
\* every stage with a derived flag meets an option list that is absent, one
\* that collides with the flag, and one that does not
OptionsUnset == [o \in OptionNames |-> None]

OptionsOverride ==
    [dbsplit |-> <<"-", "s", "2", "0", "0">>, repmask |-> <<"-", "c", "9">>, dasqv |-> <<"-", "c", "9", " ", "-", "x">>,
     daligner |-> <<"-", "M", "8", "0">>, datander |-> <<"-", "x">>, tanmask |-> <<"-", "x">>,
     dascover |-> <<"-", "x">>, dastrim |-> <<"-", "g", "5", " ", "-", "b", "2">>, daspatch |-> <<"-", "x">>,
     dasedit |-> <<"-", "x">>]

OptionsOther ==
    [dbsplit |-> <<"-", "x">>, repmask |-> <<"-", "x">>, dasqv |-> <<"-", "x">>,
     daligner |-> None, datander |-> None, tanmask |-> None,
     dascover |-> None, dastrim |-> <<"-", "x">>, daspatch |-> None,
     dasedit |-> None]

OptionsMixed ==
    [dbsplit |-> <<"-", "x", " ", "-", "s", "2", "0", "0">>, repmask |-> <<"-", "x", " ", "-", "c", "9">>, dasqv |-> <<"-", "x", " ", "-", "y">>,
     daligner |-> <<"-", "M", "8", "0">>, datander |-> None, tanmask |-> None,
     dascover |-> None, dastrim |-> None, daspatch |-> None,
     dasedit |-> None]

OptionStrings == {OptionsUnset, OptionsOverride, OptionsOther, OptionsMixed}

GenomeSizeStrings == {<<"4">>, <<"1", "k">>, <<"0">>, <<"x">>}

\* --repeat_depth in tenths: 3.0 (the default), 1.0, 0.5
RepeatDepths == {30, 10, 5}

Argv ==
    [genome_size : GenomeSizeStrings, repeat_depth : RepeatDepths,
     keep : BOOLEAN, options : OptionStrings]

\* sys.exit(message): exit status 1; an uncaught exception ends the same way
Exit(code, msg) ==
    /\ pc' = "exited"
    /\ exit_code' = code
    /\ exit_msg' = msg

Goto(next) ==
    /\ pc' = next
    /\ UNCHANGED <<exit_code, exit_msg>>

\* line 149: args.repeat_depth <= 1.0
RepeatDepthTooSmall(rd) == rd <= 10

get_arguments ==
    /\ pc = "get_arguments"
    /\   LET gs == parse_genome_size(argv.genome_size) IN
         IF RepeatDepthTooSmall(argv.repeat_depth)
         THEN /\ Exit(1, "repeat depth must be greater than 1")
              /\ UNCHANGED args
         ELSE IF gs.status # "ok"
         THEN /\ Exit(1, gs.status)
              /\ UNCHANGED args
         ELSE /\ Goto("check_tools_exist")
              /\ args' = [genome_size |-> DigitsToNat(gs.digits),
                          repeat_depth |-> argv.repeat_depth,
                          keep |-> argv.keep,
                          options |-> [o \in OptionNames |->
                                         process_extra_options(argv.options[o])]]
    /\ UNCHANGED <<argv, missing_tools, tempdir, files, input_opened, file_type,
                   first_char, read_name_dict, read_comment_dict, read_names,
                   base_total, renamed_reads, depth, commands, dasqv_output,
                   stdout, input_records, scrubbed_names, gsvars>>

\* ------------------------------------------------------------------------
\* check_tools_exist, check_files_and_directories, create_temp_dir
\* ------------------------------------------------------------------------
RequiredTools ==
    {<<"f", "a", "s", "t", "a", "2", "D", "B">>, <<"D", "B", "s", "p", "l", "i", "t">>, <<"d", "a", "l", "i", "g", "n", "e", "r">>, <<"R", "E", "P", "m", "a", "s", "k">>, <<"d", "a", "t", "a", "n", "d", "e", "r">>,
     <<"T", "A", "N", "m", "a", "s", "k">>, <<"D", "A", "S", "c", "o", "v", "e", "r">>, <<"D", "A", "S", "q", "v">>, <<"D", "A", "S", "t", "r", "i", "m">>, <<"D", "A", "S", "p", "a", "t", "c", "h">>,
     <<"D", "A", "S", "e", "d", "i", "t">>, <<"D", "B", "2", "f", "a", "s", "t", "a">>}

\* what shutil.which may fail to find: nothing, any one tool, or all of them
MissingChoices == {{}} \cup {{t} : t \in RequiredTools} \cup {RequiredTools}

\* a faulty variant: the list of missing tools is never looked at
ToolsMissingIgnored(missing) == FALSE

\* line 84
ToolsMissing(missing) == missing # {}

check_tools_exist ==
    /\ pc = "check_tools_exist"
    /\ \E missing \in MissingChoices :
         /\ missing_tools' = missing
         /\ IF ToolsMissing(missing)
            THEN Exit(1, "could not find tool")
            ELSE Goto("check_files_and_directories")
    /\ UNCHANGED <<argv, args, tempdir, files, input_opened, file_type,
                   first_char, read_name_dict, read_comment_dict, read_names,
                   base_total, renamed_reads, depth, commands, dasqv_output,
                   stdout, input_records, scrubbed_names, gsvars>>

check_files_and_directories ==
    /\ pc = "check_files_and_directories"
    /\ \E input_is_file \in BOOLEAN, tempdir_is_dir \in BOOLEAN :
         IF ~input_is_file THEN Exit(1, "input read file does not exist")
         ELSE IF tempdir_is_dir THEN Exit(1, "temporary directory already exists")
         ELSE Goto("create_temp_dir")
    /\ UNCHANGED <<argv, args, missing_tools, tempdir, files, input_opened, file_type,
                   first_char, read_name_dict, read_comment_dict, read_names,
                   base_total, renamed_reads, depth, commands, dasqv_output,
                   stdout, input_records, scrubbed_names, gsvars>>

create_temp_dir ==
    /\ pc = "create_temp_dir"
    /\ tempdir' = "present"
    /\ Goto("rename_reads")
    /\ UNCHANGED <<argv, args, missing_tools, files, input_opened, file_type,
                   first_char, read_name_dict, read_comment_dict, read_names,
                   base_total, renamed_reads, depth, commands, dasqv_output,
                   stdout, input_records, scrubbed_names, gsvars>>

\* ------------------------------------------------------------------------
\* rename_reads_with_fake_pacbio_names
\* ------------------------------------------------------------------------
\* the input files the model draws, record by record
InputNames == {<<"a">>, <<"b">>}

InputComments == {None, <<"c", " ", "d">>}

InputSeqLens == {50}

InputRecords ==
    {r \in [sigil : {<<">">>, <<"@">>, <<>>}, name : InputNames \cup {<<>>},
            comment : InputComments, seqlen : InputSeqLens, truncated : BOOLEAN] :
       r.name = <<>> => r.comment = None}

\* the header line of a record, as it stands in the file
HeaderLine(r) ==
    r.sigil \o r.name \o (IF r.comment = None THEN <<>> ELSE <<" ">> \o r.comment) \o <<"\n">>

Compressions == {"plain", "gz", "bz2", "zip"}

FirstChars == {">", "@", "x"}

\* lines 217-230: get_sequence_file_type, get_open_func, the two open calls
open_reads ==
    /\ pc = "rename_reads"
    /\ input_opened' = TRUE
    /\ \E compression \in Compressions, c \in FirstChars :
         IF compression = "bz2"
         THEN /\ Exit(1, "bzip2 format not supported")
              /\ UNCHANGED <<file_type, first_char, files>>
         ELSE IF compression = "zip"
         THEN /\ Exit(1, "zip format not supported")
              /\ UNCHANGED <<file_type, first_char, files>>
         ELSE IF c \notin {">", "@"}
         THEN /\ Exit(1, "ValueError: file is neither FASTA or FASTQ")
              /\ UNCHANGED <<file_type, first_char, files>>
         ELSE /\ Goto("read_loop")
              /\ file_type' = IF c = ">" THEN "FASTA" ELSE "FASTQ"
              /\ first_char' = c
              /\ files' = files \cup {"renamed_reads.fasta"}
    /\ UNCHANGED <<argv, args, missing_tools, tempdir, read_name_dict,
                   read_comment_dict, read_names, base_total, renamed_reads,
                   depth, commands, dasqv_output, stdout, input_records,
                   scrubbed_names, gsvars>>

\* lines 233-239: the header carries the sigil of the format and a name
HeaderParses(line, ftype) ==
    /\ (ftype = "FASTA" => line[1] = ">")
    /\ (ftype = "FASTQ" => line[1] = "@")
    /\ Len(Strip(Tail(line))) > 0

\* lines 243-251
OldName(header) == Split1(header, " ")[1]

OldComment(header) ==
    IF Len(Split1(header, " ")) > 1 THEN Split1(header, " ")[2] ELSE None

\* line 255
NewHeader(read_num, seqlen) ==
    <<"r", "e", "a", "d", "s", "/">> \o PyStr(read_num) \o <<"/", "0", "_">> \o PyStr(seqlen)

\* a faulty variant: a name seen before is accepted
DuplicateNameIgnored(old_name, names) == FALSE

\* line 245
DuplicateName(old_name, names) == old_name \in names

\* a faulty variant: the counter starts at 1
ReadNumFromOne(n) == n + 1

\* line 254: next(counter) on itertools.count(start=0), n values drawn so far
ReadNum(n) == n

DictSet(d, k, v) == [i \in DOMAIN d \cup {k} |-> IF i = k THEN v ELSE d[i]]

EmptyDict == [i \in {} |-> None]

\* lines 232-274: one turn of the loop over the input file
read_record ==
    /\ pc = "read_loop"
    /\ Len(input_records) < MaxReads
    /\ \E r \in InputRecords :
         /\ Len(input_records) = 0 => r.sigil = <<first_char>>
         /\ LET line == HeaderLine(r)
                header == Strip(Tail(line))
                read_num == ReadNum(Len(renamed_reads))
            IN
            IF ~HeaderParses(line, file_type)
            THEN /\ Exit(1, "failed to parse read header")
                 /\ UNCHANGED <<read_name_dict, read_comment_dict, read_names,
                                base_total, renamed_reads, input_records>>
            ELSE IF DuplicateName(OldName(header), read_names)
            THEN /\ Exit(1, "duplicate read name")
                 /\ input_records' = Append(input_records, [name |-> r.name, comment |-> r.comment])
                 /\ UNCHANGED <<read_name_dict, read_comment_dict, read_names,
                                base_total, renamed_reads>>
            ELSE IF r.truncated
            THEN /\ Exit(1, "StopIteration")
                 /\ UNCHANGED <<read_name_dict, read_comment_dict, read_names,
                                base_total, renamed_reads, input_records>>
            ELSE /\ Goto("read_loop")
                 /\ read_names' = read_names \cup {OldName(header)}
                 /\ read_name_dict' = DictSet(read_name_dict, read_num, OldName(header))
                 /\ read_comment_dict' = DictSet(read_comment_dict, read_num, OldComment(header))
                 /\ renamed_reads' = Append(renamed_reads, NewHeader(read_num, r.seqlen))
                 /\ base_total' = base_total + r.seqlen
                 /\ input_records' = Append(input_records, [name |-> r.name, comment |-> r.comment])
    /\ UNCHANGED <<argv, args, missing_tools, tempdir, files, input_opened, file_type,
                   first_char, depth, commands, dasqv_output, stdout,
                   scrubbed_names, gsvars>>

\* lines 276-282: the end of the input file
end_of_reads ==
    /\ pc = "read_loop"
    /\ Len(input_records) > 0
    /\ depth' = <<base_total, args.genome_size>>
    /\ Goto("create_dazzler_db")
    /\ UNCHANGED <<argv, args, missing_tools, tempdir, files, input_opened, file_type,
                   first_char, read_name_dict, read_comment_dict, read_names,
                   base_total, renamed_reads, commands, dasqv_output, stdout,
                   input_records, scrubbed_names, gsvars>>

\* ------------------------------------------------------------------------
\* run_command and the thirteen stage invocations
\* ------------------------------------------------------------------------
\* the exit statuses the model draws for a stage (-9: killed by a signal)
ReturnCodes == {0, 1, -9}

\* a faulty variant: a negative exit status passes for success
CommandFailedPositiveOnly(return_code) == return_code > 0

\* line 607
CommandFailed(return_code) == return_code # 0

\* lines 592-609; the caller's pc moves to next when the command succeeds
run_command(command, next) ==
    \E return_code \in ReturnCodes :
      /\ commands' = Append(commands, [command |-> command, rc |-> return_code])
      /\ IF CommandFailed(return_code)
         THEN Exit(1, "command failed")
         ELSE Goto(next)

\* any(x.startswith(prefix) for x in options)
AnyStartsWith(options, prefix) ==
    \E i \in 1..Len(options) : StartsWith(options[i], prefix)

\* lines 291-294
\* a faulty variant: '-s100' is added whatever the caller gave
SplitAlways(dbsplit_options) == <<<<"-", "s", "1", "0", "0">>>>

Split100(dbsplit_options) ==
    IF AnyStartsWith(dbsplit_options, <<"-", "s">>) THEN <<>> ELSE <<<<"-", "s", "1", "0", "0">>>>

\* lines 322-325: depth * repeat_depth, the repeat depth held in tenths
Threshold(repmask_options, d, repeat_depth) ==
    IF AnyStartsWith(repmask_options, <<"-", "c">>) THEN <<>>
    ELSE <<<<"-", "c">> \o PyStr(RoundDiv(d[1] * repeat_depth, d[2] * 10))>>

\* lines 390-393
DepthFlag(dasqv_options, d) ==
    IF AnyStartsWith(dasqv_options, <<"-", "c">>) THEN <<>>
    ELSE <<<<"-", "c">> \o PyStr(RoundDiv(d[1], d[2]))>>

Fasta2DBCommand == <<<<"f", "a", "s", "t", "a", "2", "D", "B">>, <<"r", "e", "a", "d", "s", ".", "d", "b">>, <<"r", "e", "n", "a", "m", "e", "d", "_", "r", "e", "a", "d", "s", ".", "f", "a", "s", "t", "a">>>>

\* a faulty variant: the caller's options come before the derived one
DBsplitCommandCallerFirst(dbsplit_options) ==
    <<<<"D", "B", "s", "p", "l", "i", "t">>>> \o dbsplit_options \o Split100(dbsplit_options) \o <<<<"r", "e", "a", "d", "s">>>>

\* line 296
DBsplitCommand(dbsplit_options) ==
    <<<<"D", "B", "s", "p", "l", "i", "t">>>> \o Split100(dbsplit_options) \o dbsplit_options \o <<<<"r", "e", "a", "d", "s">>>>

\* line 309
DalignerCommand(daligner_options) ==
    <<<<"d", "a", "l", "i", "g", "n", "e", "r">>, <<"-", "v">>, <<"-", "P", "a", "l", "i", "g", "n", "_", "t", "e", "m", "p">>>> \o daligner_options \o <<<<"r", "e", "a", "d", "s">>, <<"r", "e", "a", "d", "s">>>>

\* line 327
REPmaskCommand(repmask_options, d, repeat_depth) ==
    <<<<"R", "E", "P", "m", "a", "s", "k">>, <<"-", "v">>>> \o Threshold(repmask_options, d, repeat_depth)
        \o repmask_options \o <<<<"r", "e", "a", "d", "s">>, <<"r", "e", "a", "d", "s", ".", "r", "e", "a", "d", "s", ".", "l", "a", "s">>>>

\* line 340
DatanderCommand(datander_options) ==
    <<<<"d", "a", "t", "a", "n", "d", "e", "r">>, <<"-", "v">>, <<"-", "P", "a", "l", "i", "g", "n", "_", "t", "e", "m", "p">>>> \o datander_options \o <<<<"r", "e", "a", "d", "s">>>>

\* line 353
TANmaskCommand(tanmask_options) ==
    <<<<"T", "A", "N", "m", "a", "s", "k">>, <<"-", "v">>>> \o tanmask_options \o <<<<"r", "e", "a", "d", "s">>, <<"T", "A", "N", ".", "r", "e", "a", "d", "s">>>>

\* a faulty variant: the second alignment is run without the two masks
MaskedDalignerCommandUnmasked(daligner_options) == DalignerCommand(daligner_options)

\* lines 366-367
MaskedDalignerCommand(daligner_options) ==
    <<<<"d", "a", "l", "i", "g", "n", "e", "r">>, <<"-", "v">>, <<"-", "P", "a", "l", "i", "g", "n", "_", "t", "e", "m", "p">>, <<"-", "m", "r", "e", "p">>, <<"-", "m", "t", "a", "n">>>>
        \o daligner_options \o <<<<"r", "e", "a", "d", "s">>, <<"r", "e", "a", "d", "s">>>>

\* line 380
DAScoverCommand(dascover_options) ==
    <<<<"D", "A", "S", "c", "o", "v", "e", "r">>, <<"-", "v">>>> \o dascover_options \o <<<<"r", "e", "a", "d", "s">>, <<"r", "e", "a", "d", "s", ".", "r", "e", "a", "d", "s", ".", "l", "a", "s">>>>

\* line 395
DASqvCommand(dasqv_options, d) ==
    <<<<"D", "A", "S", "q", "v">>, <<"-", "v">>>> \o DepthFlag(dasqv_options, d) \o dasqv_options
        \o <<<<"r", "e", "a", "d", "s">>, <<"r", "e", "a", "d", "s", ".", "r", "e", "a", "d", "s", ".", "l", "a", "s">>>>

\* a faulty variant: -g and -b are added when the caller gave none
DAStrimCommandWithRecommended(dastrim_options) ==
    <<<<"D", "A", "S", "t", "r", "i", "m">>, <<"-", "v">>>>
        \o (IF AnyStartsWith(dastrim_options, <<"-", "g">>) THEN <<>> ELSE <<<<"-", "g", "8", "0">>>>)
        \o (IF AnyStartsWith(dastrim_options, <<"-", "b">>) THEN <<>> ELSE <<<<"-", "b", "6", "0">>>>)
        \o dastrim_options \o <<<<"r", "e", "a", "d", "s">>, <<"r", "e", "a", "d", "s", ".", "r", "e", "a", "d", "s", ".", "l", "a", "s">>>>

\* line 405
DAStrimCommand(dastrim_options) ==
    <<<<"D", "A", "S", "t", "r", "i", "m">>, <<"-", "v">>>> \o dastrim_options \o <<<<"r", "e", "a", "d", "s">>, <<"r", "e", "a", "d", "s", ".", "r", "e", "a", "d", "s", ".", "l", "a", "s">>>>

\* line 415
DASpatchCommand(daspatch_options) ==
    <<<<"D", "A", "S", "p", "a", "t", "c", "h">>, <<"-", "v">>>> \o daspatch_options \o <<<<"r", "e", "a", "d", "s">>, <<"r", "e", "a", "d", "s", ".", "r", "e", "a", "d", "s", ".", "l", "a", "s">>>>

\* line 425
DASeditCommand(dasedit_options) ==
    <<<<"D", "A", "S", "e", "d", "i", "t">>, <<"-", "v">>>> \o dasedit_options \o <<<<"r", "e", "a", "d", "s">>, <<"p", "a", "t", "c", "h", "e", "d", "_", "r", "e", "a", "d", "s">>>>

\* line 438
DB2fastaCommand == <<<<"D", "B", "2", "f", "a", "s", "t", "a">>, <<"-", "v", "U">>, <<"p", "a", "t", "c", "h", "e", "d", "_", "r", "e", "a", "d", "s">>>>

StageUnchanged ==
    UNCHANGED <<argv, args, missing_tools, tempdir, input_opened, file_type,
                first_char, read_name_dict, read_comment_dict, read_names,
                base_total, renamed_reads, depth, stdout, input_records,
                scrubbed_names, gsvars>>

\* a stage that makes align_temp, runs, and removes it again (lines 306-312)
WithAlignTemp == files' = IF pc' = "exited" THEN files \cup {"align_temp"} ELSE files

\* create_dazzler_db, line 289
create_dazzler_db ==
    /\ pc = "create_dazzler_db"
    /\ run_command(Fasta2DBCommand, "DBsplit")
    /\ UNCHANGED <<files, dasqv_output>>
    /\ StageUnchanged

\* create_dazzler_db, lines 291-296
create_dazzler_db_split ==
    /\ pc = "DBsplit"
    /\ run_command(DBsplitCommand(args.options["dbsplit"]), "align_reads")
    /\ UNCHANGED <<files, dasqv_output>>
    /\ StageUnchanged

align_reads ==
    /\ pc = "align_reads"
    /\ run_command(DalignerCommand(args.options["daligner"]), "mask_repeats_1")
    /\ WithAlignTemp
    /\ UNCHANGED dasqv_output
    /\ StageUnchanged

mask_repeats_1 ==
    /\ pc = "mask_repeats_1"
    /\ run_command(REPmaskCommand(args.options["repmask"], depth, args.repeat_depth),
                   "mask_repeats_2")
    /\ UNCHANGED <<files, dasqv_output>>
    /\ StageUnchanged

mask_repeats_2 ==
    /\ pc = "mask_repeats_2"
    /\ run_command(DatanderCommand(args.options["datander"]), "mask_repeats_3")
    /\ WithAlignTemp
    /\ UNCHANGED dasqv_output
    /\ StageUnchanged

mask_repeats_3 ==
    /\ pc = "mask_repeats_3"
    /\ run_command(TANmaskCommand(args.options["tanmask"]), "align_reads_with_masking")
    /\ UNCHANGED <<files, dasqv_output>>
    /\ StageUnchanged

align_reads_with_masking ==
    /\ pc = "align_reads_with_masking"
    /\ run_command(MaskedDalignerCommand(args.options["daligner"]), "estimate_coverage")
    /\ WithAlignTemp
    /\ UNCHANGED dasqv_output
    /\ StageUnchanged

estimate_coverage ==
    /\ pc = "estimate_coverage"
    /\ run_command(DAScoverCommand(args.options["dascover"]), "intrinsic_quality")
    /\ UNCHANGED <<files, dasqv_output>>
    /\ StageUnchanged

\* the console output DASqv may give: with or without a line that recommends
\* DAStrim thresholds
RecommendLine == "Recommend 'DAStrim -g80 -b60'"

DasqvOutputs == {<<"DASqv -v">>, <<"DASqv -v", RecommendLine>>}

\* run_command returns full_output; intrinsic_quality drops it (line 395)
intrinsic_quality ==
    /\ pc = "intrinsic_quality"
    /\ run_command(DASqvCommand(args.options["dasqv"], depth), "trim")
    /\ \E full_output \in DasqvOutputs : dasqv_output' = full_output
    /\ UNCHANGED files
    /\ StageUnchanged

trim ==
    /\ pc = "trim"
    /\ run_command(DAStrimCommand(args.options["dastrim"]), "patch")
    /\ UNCHANGED <<files, dasqv_output>>
    /\ StageUnchanged

patch ==
    /\ pc = "patch"
    /\ run_command(DASpatchCommand(args.options["daspatch"]), "new_db")
    /\ UNCHANGED <<files, dasqv_output>>
    /\ StageUnchanged

new_db ==
    /\ pc = "new_db"
    /\ run_command(DASeditCommand(args.options["dasedit"]), "extract_reads")
    /\ UNCHANGED <<files, dasqv_output>>
    /\ StageUnchanged

\* lines 435-444: renamed_reads.fasta is moved aside, DB2fasta writes a new
\* one, which becomes scrubbed_reads.fasta
extract_reads ==
    /\ pc = "extract_reads"
    /\ run_command(DB2fastaCommand, "output_reads")
    /\ files' = IF pc' = "exited"
                THEN (files \ {"renamed_reads.fasta"}) \cup {"temp.fasta"}
                ELSE files \cup {"scrubbed_reads.fasta"}
    /\ UNCHANGED dasqv_output
    /\ StageUnchanged

\* ------------------------------------------------------------------------
\* output_reads
\* ------------------------------------------------------------------------
\* the headers DB2fasta may have written: reads/<i>/<range> for i that may be
\* registered, for an i that never is, a range that holds a '/', and a header
\* with no '/' at all
ScrubbedNames ==
    {<<"r", "e", "a", "d", "s", "/", "0", "/", "0", "_", "5">>, <<"r", "e", "a", "d", "s", "/", "0", "/", "1", "_", "3", "/", "x">>, <<"r", "e", "a", "d", "s", "/", "1", "/", "0", "_", "5">>,
     <<"r", "e", "a", "d", "s", "/">> \o PyStr(MaxReads) \o <<"/", "0", "_", "5">>, <<"r", "e", "a", "d", "s">>}

ScrubbedSeq == <<"A", "C", "G">>

\* lines 454-456
NameParts(new_name) == Split(new_name, "/")

NameSplits(new_name) ==
    /\ Len(NameParts(new_name)) >= 3
    /\ Len(NameParts(new_name)[2]) > 0
    /\ AllDigitChars(NameParts(new_name)[2])

PrintedReadNum(new_name) == PyInt(NameParts(new_name)[2])

ReadRange(new_name) == NameParts(new_name)[3]

\* line 459: read_name_dict[read_num] raises KeyError for an unknown number
KnownRead(read_num, name_dict) == read_num \in DOMAIN name_dict

\* lines 459-461
PrintedHeader(new_name, name_dict, comment_dict) ==
    LET read_num == PrintedReadNum(new_name)
        header == <<">">> \o name_dict[read_num] \o <<"/">> \o ReadRange(new_name)
    IN  IF comment_dict[read_num] # None
        THEN header \o <<" ">> \o comment_dict[read_num]
        ELSE header

\* a faulty variant: an unknown read number is skipped
PrintReadSkipsUnknown(new_name, seq, name_dict, comment_dict) ==
    IF ~NameSplits(new_name) THEN [raised |-> "IndexError", lines |-> <<>>]
    ELSE IF ~KnownRead(PrintedReadNum(new_name), name_dict)
    THEN [raised |-> "", lines |-> <<>>]
    ELSE [raised |-> "",
          lines |-> <<PrintedHeader(new_name, name_dict, comment_dict), seq>>]

\* lines 453-465: the exception print_read raises, or the lines it prints
PrintRead(new_name, seq, name_dict, comment_dict) ==
    IF ~NameSplits(new_name) THEN [raised |-> "IndexError", lines |-> <<>>]
    ELSE IF ~KnownRead(PrintedReadNum(new_name), name_dict)
    THEN [raised |-> "KeyError", lines |-> <<>>]
    ELSE [raised |-> "",
          lines |-> <<PrintedHeader(new_name, name_dict, comment_dict), seq>>]

OutputUnchanged ==
    UNCHANGED <<argv, args, missing_tools, tempdir, files, input_opened, file_type,
                first_char, read_name_dict, read_comment_dict, read_names,
                base_total, renamed_reads, depth, commands, dasqv_output,
                input_records, gsvars>>

\* lines 474-493: one record of scrubbed_reads.fasta is read and printed
print_read ==
    /\ pc = "output_reads"
    /\ Len(scrubbed_names) < MaxOut
    /\ \E new_name \in ScrubbedNames :
         /\ scrubbed_names' = Append(scrubbed_names, new_name)
         /\ LET r == PrintRead(new_name, ScrubbedSeq, read_name_dict, read_comment_dict)
            IN  /\ stdout' = stdout \o r.lines
                /\ IF r.raised # "" THEN Exit(1, r.raised) ELSE Goto("output_reads")
    /\ OutputUnchanged

\* lines 491-497: the end of scrubbed_reads.fasta
end_of_output ==
    /\ pc = "output_reads"
    /\ Goto("finish")
    /\ UNCHANGED <<stdout, scrubbed_names>>
    /\ OutputUnchanged

\* a faulty variant: the temporary directory is deleted whatever the flag
DeleteTempDirAlways(keep) == TRUE

\* line 56: if not args.keep
DeleteTempDir(keep) == ~keep

\* lines 55-59
finish ==
    /\ pc = "finish"
    /\ Exit(0, "")
    /\ tempdir' = IF DeleteTempDir(args.keep) THEN "deleted" ELSE tempdir
    /\ files' = IF DeleteTempDir(args.keep) THEN {} ELSE files
    /\ UNCHANGED <<argv, args, missing_tools, input_opened, file_type,
                   first_char, read_name_dict, read_comment_dict, read_names,
                   base_total, renamed_reads, depth, commands, dasqv_output,
                   stdout, input_records, scrubbed_names, gsvars>>

\* ------------------------------------------------------------------------
\* The run of main()
\* ------------------------------------------------------------------------
MainInit ==
    /\ pc = "get_arguments"
    /\ exit_code = -1
    /\ exit_msg = ""
    /\ args = NoArgs
    /\ missing_tools = {}
    /\ tempdir = "absent"
    /\ files = {}
    /\ input_opened = FALSE
    /\ file_type = ""
    /\ first_char = ""
    /\ read_name_dict = EmptyDict
    /\ read_comment_dict = EmptyDict
    /\ read_names = {}
    /\ base_total = 0
    /\ renamed_reads = <<>>
    /\ depth = <<0, 1>>
    /\ commands = <<>>
    /\ dasqv_output = <<>>
    /\ stdout = <<>>
    /\ input_records = <<>>
    /\ scrubbed_names = <<>>

Init ==
    /\ MainInit
    /\ argv \in Argv
    /\ gs_str = <<>>
    /\ gs_out = GsFatal("unused")

Next ==
    \/ get_arguments
    \/ check_tools_exist
    \/ check_files_and_directories
    \/ create_temp_dir
    \/ open_reads
    \/ read_record
    \/ end_of_reads
    \/ create_dazzler_db
    \/ create_dazzler_db_split
    \/ align_reads
    \/ mask_repeats_1
    \/ mask_repeats_2
    \/ mask_repeats_3
    \/ align_reads_with_masking
    \/ estimate_coverage
    \/ intrinsic_quality
    \/ trim
    \/ patch
    \/ new_db
    \/ extract_reads
    \/ print_read
    \/ end_of_output
    \/ finish

Spec == Init /\ [][Next]_vars

\* ------------------------------------------------------------------------
\* SpecGS: parse_genome_size on every string over GsChars up to MaxGsLen
\* ------------------------------------------------------------------------
GsChars == {"0", "3", "5", "8", ".", "-", "k", "M", "G", "g", "x"}

RECURSIVE StringsUpTo(_, _)
StringsUpTo(chars, n) ==
    IF n = 0 THEN {<<>>}
    ELSE LET shorter == StringsUpTo(chars, n - 1) IN
         shorter \cup {Append(s, c) : s \in {t \in shorter : Len(t) = n - 1}, c \in chars}

GsInputs == StringsUpTo(GsChars, MaxGsLen)

InitGS ==
    /\ MainInit
    /\ argv = [genome_size |-> <<>>, repeat_depth |-> 30, keep |-> FALSE,
               options |-> OptionsUnset]
    /\ gs_str \in GsInputs
    /\ gs_out = GsFatal("pending")

ParseGenomeSize ==
    /\ gs_out.status = "pending"
    /\ gs_out' = parse_genome_size(gs_str)
    /\ UNCHANGED <<gs_str, mainvars>>

NextGS == ParseGenomeSize

SpecGS == InitGS /\ [][NextGS]_vars

\* ------------------------------------------------------------------------
\* C9: genome-size parsing.  The expected value is computed with integer
\* arithmetic on the coefficient, not by moving the decimal point.
\* ------------------------------------------------------------------------
GsSuffixes == {"k", "K", "m", "M", "g", "G"}

GsHasSuffix(s) == Len(s) > 0 /\ s[Len(s)] \in GsSuffixes

GsCoefficient(s) == IF GsHasSuffix(s) THEN DropLast(s) ELSE s

GsCoefBody(s) ==
    LET c == GsCoefficient(s) IN IF Len(c) > 0 /\ c[1] = "-" THEN Tail(c) ELSE c

GsDots(b) == {i \in 1..Len(b) : b[i] = "."}

\* a decimal coefficient (optionally negative, at most one '.', at least one
\* digit) followed by an optional suffix
GsWellFormed(s) ==
    LET b == GsCoefBody(s) IN
    /\ \A i \in 1..Len(b) : b[i] \in DigitChars \cup {"."}
    /\ Cardinality(GsDots(b)) <= 1
    /\ \E i \in 1..Len(b) : b[i] \in DigitChars

GsNegative(s) == Len(GsCoefficient(s)) > 0 /\ GsCoefficient(s)[1] = "-"

RECURSIVE Pow10(_)
Pow10(n) == IF n = 0 THEN 1 ELSE 10 * Pow10(n - 1)

\* the coefficient without its '.', and the number of decimals after it
GsCoefNat(s) == NatOfDigitChars(SelectSeq(GsCoefBody(s), LAMBDA c : c # "."))

GsDecimals(s) ==
    LET b == GsCoefBody(s) IN
    IF GsDots(b) = {} THEN 0 ELSE Len(b) - (CHOOSE i \in GsDots(b) : TRUE)

GsMultiplierExp(s) ==
    IF ~GsHasSuffix(s) THEN 0
    ELSE IF s[Len(s)] \in {"k", "K"} THEN 3
    ELSE IF s[Len(s)] \in {"m", "M"} THEN 6
    ELSE 9

\* the integers nearest to coefficient x multiplier (two of them on a tie)
GsExpected(s) ==
    LET n == GsCoefNat(s)
        d == GsDecimals(s)
        m == GsMultiplierExp(s)
    IN  IF m >= d THEN {StripZeros(NatToDigits(n) \o Zeros(m - d))}
        ELSE LET p == Pow10(d - m)
                 q == n \div p
                 r == n % p
             IN  IF 2 * r < p THEN {NatToDigits(q)}
                 ELSE IF 2 * r > p THEN {NatToDigits(q + 1)}
                 ELSE {NatToDigits(q), NatToDigits(q + 1)}

\* value div 10^6 and value mod 10^6 of a digit sequence
GsHigh(ds) ==
    IF Len(ds) <= 6 THEN 0
    ELSE NatOfDigitChars([i \in 1..(Len(ds) - 6) |-> DigitChar(ds[i])])

GsLow(ds) ==
    LET k == IF Len(ds) <= 6 THEN Len(ds) ELSE 6 IN
    NatOfDigitChars([i \in 1..k |-> DigitChar(ds[Len(ds) - k + i])])

GsAdvisory(ds) ==
    IF GsHigh(ds) = 0 /\ GsLow(ds) < 100 THEN "small"
    ELSE IF GsHigh(ds) > 100000 \/ (GsHigh(ds) = 100000 /\ GsLow(ds) > 0) THEN "large"
    ELSE "none"

GsExamples ==
    {<< <<"3", "G">>, <<3, 0, 0, 0, 0, 0, 0, 0, 0, 0>> >>,
     << <<"5", ".", "5", "M">>, <<5, 5, 0, 0, 0, 0, 0>> >>,
     << <<"8", "0", "0", "k">>, <<8, 0, 0, 0, 0, 0>> >>,
     << <<"5", "0">>, <<5, 0>> >>}

GsParsed == gs_out.status # "pending"

\* C9: a well-formed magnitude string yields coefficient x 10^(0|3|6|9) as an
\* integer; the outcome is fatal exactly when the string is unparseable or
\* the value is below 1; a value below 100 or above 10^11 is returned
\* unchanged with an advisory only.
C9_GenomeSizeParsing ==
    GsParsed =>
      /\ ~GsWellFormed(gs_str) => gs_out.status = "could not parse genome size"
      /\ GsWellFormed(gs_str) /\ GsNegative(gs_str) =>
            gs_out.status = "genome size must be a positive value"
      /\ GsWellFormed(gs_str) /\ ~GsNegative(gs_str) =>
            \/ /\ gs_out.status = "ok"
               /\ gs_out.digits \in GsExpected(gs_str) \ {<<0>>}
               /\ ~gs_out.neg
               /\ gs_out.warning = GsAdvisory(gs_out.digits)
            \/ /\ gs_out.status = "genome size must be a positive value"
               /\ <<0>> \in GsExpected(gs_str)
      /\ \A ex \in GsExamples :
            gs_str = ex[1] => gs_out.status = "ok" /\ gs_out.digits = ex[2]

\* C9 witness: "5.5M" parsed to 5500000 with no advisory
C9_Witness ==
    /\ gs_str = <<"5", ".", "5", "M">>
    /\ gs_out.status = "ok"
    /\ gs_out.digits = <<5, 5, 0, 0, 0, 0, 0>>
    /\ gs_out.warning = "none"

\* ------------------------------------------------------------------------
\* Claims about the run of main()
\* ------------------------------------------------------------------------
Exe(i) == commands[i].command[1]

Invoked(exe) == \E i \in 1..Len(commands) : Exe(i) = exe

FatallyExited == pc = "exited" /\ exit_code # 0

\* C1: a stage that ends with a non-zero exit status is the last command ever
\* invoked, the process has then ended with a non-zero status, and nothing was
\* written to standard output.
C1_FailFast ==
    \A i \in 1..Len(commands) :
      commands[i].rc # 0 =>
        /\ i = Len(commands)
        /\ FatallyExited
        /\ stdout = <<>>
        /\ scrubbed_names = <<>>

\* C1 witness: the thirteenth stage, DB2fasta, was invoked and failed
C1_Witness ==
    /\ Len(commands) = 13
    /\ Exe(13) = <<"D", "B", "2", "f", "a", "s", "t", "a">>
    /\ commands[13].rc # 0
    /\ FatallyExited

\* the records of the input read so far have pairwise distinct identifiers
DistinctInput ==
    \A i, j \in 1..Len(input_records) :
      input_records[i].name = input_records[j].name => i = j

IngestionDone == depth # <<0, 1>>

\* C2: with n records of pairwise distinct identifiers ingested, the registry
\* has the keys 0..n-1, the k-th record is keyed by k, each identifier is
\* under exactly one index, and an index resolves to its record's
\* (identifier, comment or none).
C2_Registry ==
    DistinctInput =>
      LET n == Len(input_records) IN
      /\ DOMAIN read_name_dict = 0..(n - 1)
      /\ DOMAIN read_comment_dict = 0..(n - 1)
      /\ \A k \in 0..(n - 1) :
           /\ read_name_dict[k] = input_records[k + 1].name
           /\ read_comment_dict[k] = input_records[k + 1].comment
           /\ Cardinality({i \in DOMAIN read_name_dict :
                             read_name_dict[i] = input_records[k + 1].name}) = 1

\* C2 witness: ingestion is over for two records, one of them with a comment
C2_Witness ==
    /\ IngestionDone
    /\ Len(input_records) = 2
    /\ input_records[1].comment = None
    /\ input_records[2].comment # None
    /\ read_comment_dict[1] = <<"c", " ", "d">>

\* C3: once two records with the same identifier were read, the second is the
\* last record read, the run has ended fatally, no command was invoked and
\* nothing was written to standard output.
C3_Duplicate ==
    ~DistinctInput =>
      /\ FatallyExited
      /\ exit_msg = "duplicate read name"
      /\ \A i, j \in 1..(Len(input_records) - 1) :
           input_records[i].name = input_records[j].name => i = j
      /\ Len(renamed_reads) = Len(input_records) - 1
      /\ commands = <<>>
      /\ stdout = <<>>

\* C3 witness: the same identifier with and without a comment
C3_Witness ==
    /\ Len(input_records) = 2
    /\ input_records[1].name = input_records[2].name
    /\ input_records[1].comment # input_records[2].comment
    /\ FatallyExited

SlashCount(s) == Cardinality({i \in 1..Len(s) : s[i] = "/"})

AfterSlash(s) == DropFirst(s, FirstIndex(s, "/"))

BeforeSlash(s) == SubSeq(s, 1, FirstIndex(s, "/") - 1)

\* of reads/<i>/<R>: the index i and the payload R, everything after the
\* second '/'
SyntheticIndexField(s) == BeforeSlash(AfterSlash(s))

RangePayload(s) == AfterSlash(AfterSlash(s))

IsSynthetic(s) ==
    /\ SlashCount(s) >= 2
    /\ Len(SyntheticIndexField(s)) > 0
    /\ AllDigitChars(SyntheticIndexField(s))

SyntheticIndex(s) == NatOfDigitChars(SyntheticIndexField(s))

Registered(i) == i < Len(renamed_reads)

\* the j-th record of scrubbed_reads.fasta was printed
Emitted(j) == Len(stdout) >= 2 * j

ExpectedHeader(s) ==
    LET r == input_records[SyntheticIndex(s) + 1] IN
    <<">">> \o r.name \o <<"/">> \o RangePayload(s)
        \o (IF r.comment = None THEN <<>> ELSE <<" ">> \o r.comment)

\* C4: a printed record named reads/<i>/<R>, i registered, has the header
\* <original identifier>/<R>, followed by a space and the comment exactly when
\* a comment was registered; R is everything after the second '/'.
C4_RoundTrip ==
    \A j \in 1..Len(scrubbed_names) :
      (IsSynthetic(scrubbed_names[j]) /\ Registered(SyntheticIndex(scrubbed_names[j]))
         /\ Emitted(j))
        => stdout[2 * j - 1] = ExpectedHeader(scrubbed_names[j])

\* C5: a record of scrubbed_reads.fasta whose index was never registered is
\* the last record read; the run has ended fatally, and nothing was printed
\* for it or after it.
C5_UnknownIndex ==
    \A j \in 1..Len(scrubbed_names) :
      (IsSynthetic(scrubbed_names[j]) /\ ~Registered(SyntheticIndex(scrubbed_names[j])))
        => /\ j = Len(scrubbed_names)
           /\ FatallyExited
           /\ Len(stdout) = 2 * (j - 1)

\* C5 witness: one record was printed, then an unregistered index was met
C5_Witness ==
    /\ Len(scrubbed_names) = 2
    /\ IsSynthetic(scrubbed_names[2])
    /\ ~Registered(SyntheticIndex(scrubbed_names[2]))
    /\ Len(stdout) = 2
    /\ FatallyExited

CountPrefix(tokens, prefix) ==
    Cardinality({i \in 1..Len(tokens) : StartsWith(tokens[i], prefix)})

\* the tokens with the prefix are the caller's when the caller gave any, and
\* exactly one (the derived one) when the caller gave none
MergedOnce(command, caller, prefix) ==
    IF CountPrefix(caller, prefix) > 0
    THEN CountPrefix(command, prefix) = CountPrefix(caller, prefix)
    ELSE CountPrefix(command, prefix) = 1

\* C6: in the command line of DBsplit ('-s'), REPmask ('-c') and DASqv ('-c'),
\* no derived token with the flag prefix is present when the caller's options
\* hold a token with that prefix, and exactly one is present otherwise.
C6_DerivedMerge ==
    \A i \in 1..Len(commands) :
      /\ Exe(i) = <<"D", "B", "s", "p", "l", "i", "t">> =>
           MergedOnce(commands[i].command, args.options["dbsplit"], <<"-", "s">>)
      /\ Exe(i) = <<"R", "E", "P", "m", "a", "s", "k">> =>
           MergedOnce(commands[i].command, args.options["repmask"], <<"-", "c">>)
      /\ Exe(i) = <<"D", "A", "S", "q", "v">> =>
           MergedOnce(commands[i].command, args.options["dasqv"], <<"-", "c">>)

\* C6 witness: DBsplit and REPmask ran with a colliding caller option, DASqv
\* with caller options that do not collide
C6_Witness ==
    /\ Invoked(<<"D", "A", "S", "q", "v">>)
    /\ CountPrefix(args.options["dbsplit"], <<"-", "s">>) > 0
    /\ CountPrefix(args.options["repmask"], <<"-", "c">>) > 0
    /\ Len(args.options["dasqv"]) > 0
    /\ CountPrefix(args.options["dasqv"], <<"-", "c">>) = 0

HasToken(command, token) == \E k \in 1..Len(command) : command[k] = token

Recommended == \E k \in 1..Len(dasqv_output) : dasqv_output[k] = RecommendLine

\* C7 as claimed: DAStrim is invoked only with -g and -b given by the caller
\* or taken from the recommendation line of DASqv's output, never without.
C7_TrimFromRecommendation ==
    \A i \in 1..Len(commands) :
      Exe(i) = <<"D", "A", "S", "t", "r", "i", "m">> =>
        /\ \/ AnyStartsWith(args.options["dastrim"], <<"-", "g">>)
           \/ Recommended /\ HasToken(commands[i].command, <<"-", "g", "8", "0">>)
        /\ \/ AnyStartsWith(args.options["dastrim"], <<"-", "b">>)
           \/ Recommended /\ HasToken(commands[i].command, <<"-", "b", "6", "0">>)

\* C7 amended: DAStrim's command line is 'DAStrim -v', the caller's options,
\* 'reads reads.reads.las', whatever DASqv printed; and once DASqv has exited
\* with status 0 the run goes on to invoke DAStrim.
C7_TrimNotDerived ==
    \A i \in 1..Len(commands) :
      /\ Exe(i) = <<"D", "A", "S", "t", "r", "i", "m">> =>
           commands[i].command =
             <<<<"D", "A", "S", "t", "r", "i", "m">>, <<"-", "v">>>> \o args.options["dastrim"]
                \o <<<<"r", "e", "a", "d", "s">>, <<"r", "e", "a", "d", "s", ".", "r", "e", "a", "d", "s", ".", "l", "a", "s">>>>
      /\ (Exe(i) = <<"D", "A", "S", "q", "v">> /\ commands[i].rc = 0 /\ pc # "trim") =>
           (Len(commands) > i /\ Exe(i + 1) = <<"D", "A", "S", "t", "r", "i", "m">>)

\* C7 witness: DAStrim ran though the caller gave no -g or -b and DASqv
\* printed no recommendation
C7_Witness ==
    /\ Invoked(<<"D", "A", "S", "t", "r", "i", "m">>)
    /\ ~Recommended
    /\ ~AnyStartsWith(args.options["dastrim"], <<"-", "g">>)
    /\ ~AnyStartsWith(args.options["dastrim"], <<"-", "b">>)
    /\ commands[Len(commands)].rc = 0

\* the fixed parts of the thirteen command lines, in the order of main()
StageExe ==
    <<<<"f", "a", "s", "t", "a", "2", "D", "B">>, <<"D", "B", "s", "p", "l", "i", "t">>, <<"d", "a", "l", "i", "g", "n", "e", "r">>, <<"R", "E", "P", "m", "a", "s", "k">>, <<"d", "a", "t", "a", "n", "d", "e", "r">>,
      <<"T", "A", "N", "m", "a", "s", "k">>, <<"d", "a", "l", "i", "g", "n", "e", "r">>, <<"D", "A", "S", "c", "o", "v", "e", "r">>, <<"D", "A", "S", "q", "v">>, <<"D", "A", "S", "t", "r", "i", "m">>,
      <<"D", "A", "S", "p", "a", "t", "c", "h">>, <<"D", "A", "S", "e", "d", "i", "t">>, <<"D", "B", "2", "f", "a", "s", "t", "a">>>>

StageLead ==
    <<<<>>, <<>>, <<<<"-", "v">>, <<"-", "P", "a", "l", "i", "g", "n", "_", "t", "e", "m", "p">>>>, <<<<"-", "v">>>>,
      <<<<"-", "v">>, <<"-", "P", "a", "l", "i", "g", "n", "_", "t", "e", "m", "p">>>>, <<<<"-", "v">>>>,
      <<<<"-", "v">>, <<"-", "P", "a", "l", "i", "g", "n", "_", "t", "e", "m", "p">>, <<"-", "m", "r", "e", "p">>, <<"-", "m", "t", "a", "n">>>>, <<<<"-", "v">>>>, <<<<"-", "v">>>>,
      <<<<"-", "v">>>>, <<<<"-", "v">>>>, <<<<"-", "v">>>>, <<<<"-", "v", "U">>>>>>

StagePositional ==
    <<<<<<"r", "e", "a", "d", "s", ".", "d", "b">>, <<"r", "e", "n", "a", "m", "e", "d", "_", "r", "e", "a", "d", "s", ".", "f", "a", "s", "t", "a">>>>, <<<<"r", "e", "a", "d", "s">>>>,
      <<<<"r", "e", "a", "d", "s">>, <<"r", "e", "a", "d", "s">>>>, <<<<"r", "e", "a", "d", "s">>, <<"r", "e", "a", "d", "s", ".", "r", "e", "a", "d", "s", ".", "l", "a", "s">>>>, <<<<"r", "e", "a", "d", "s">>>>,
      <<<<"r", "e", "a", "d", "s">>, <<"T", "A", "N", ".", "r", "e", "a", "d", "s">>>>, <<<<"r", "e", "a", "d", "s">>, <<"r", "e", "a", "d", "s">>>>,
      <<<<"r", "e", "a", "d", "s">>, <<"r", "e", "a", "d", "s", ".", "r", "e", "a", "d", "s", ".", "l", "a", "s">>>>, <<<<"r", "e", "a", "d", "s">>, <<"r", "e", "a", "d", "s", ".", "r", "e", "a", "d", "s", ".", "l", "a", "s">>>>,
      <<<<"r", "e", "a", "d", "s">>, <<"r", "e", "a", "d", "s", ".", "r", "e", "a", "d", "s", ".", "l", "a", "s">>>>, <<<<"r", "e", "a", "d", "s">>, <<"r", "e", "a", "d", "s", ".", "r", "e", "a", "d", "s", ".", "l", "a", "s">>>>,
      <<<<"r", "e", "a", "d", "s">>, <<"p", "a", "t", "c", "h", "e", "d", "_", "r", "e", "a", "d", "s">>>>, <<<<"p", "a", "t", "c", "h", "e", "d", "_", "r", "e", "a", "d", "s">>>>>>

StageOption ==
    <<"", "dbsplit", "daligner", "repmask", "datander", "tanmask", "daligner",
      "dascover", "dasqv", "dastrim", "daspatch", "dasedit", "">>

StageDerivedPrefix ==
    <<<<>>, <<"-", "s">>, <<>>, <<"-", "c">>, <<>>, <<>>, <<>>, <<>>, <<"-", "c">>, <<>>, <<>>, <<>>, <<>>>>

StageCaller(i) == IF StageOption[i] = "" THEN <<>> ELSE args.options[StageOption[i]]

\* the number of tokens of command i that are neither fixed nor the caller's
DerivedCount(i) ==
    Len(commands[i].command) - 1 - Len(StageLead[i]) - Len(StageCaller(i))
        - Len(StagePositional[i])

\* the derived tokens are well formed: none, or one token with the stage's
\* derived prefix
DerivedShape(i, derived) ==
    /\ Len(derived) <= 1
    /\ Len(derived) = 1 =>
         (StageDerivedPrefix[i] # <<>> /\ StartsWith(derived[1], StageDerivedPrefix[i]))

\* C8 as claimed: executable, fixed leading flags, the caller's options, the
\* derived options, the positional arguments.
C8_CallerThenDerived ==
    \A i \in 1..Len(commands) :
      /\ DerivedCount(i) >= 0
      /\ LET from == 1 + Len(StageLead[i]) + Len(StageCaller(i))
             derived == SubSeq(commands[i].command, from + 1, from + DerivedCount(i))
         IN  /\ DerivedShape(i, derived)
             /\ commands[i].command =
                  <<StageExe[i]>> \o StageLead[i] \o StageCaller(i) \o derived
                     \o StagePositional[i]

\* C8 amended: executable, fixed leading flags, the derived option (if it did
\* not collide), the caller's options in the order given, the positional
\* arguments.
C8_DerivedThenCaller ==
    \A i \in 1..Len(commands) :
      /\ DerivedCount(i) >= 0
      /\ LET from == 1 + Len(StageLead[i])
             derived == SubSeq(commands[i].command, from + 1, from + DerivedCount(i))
         IN  /\ DerivedShape(i, derived)
             /\ commands[i].command =
                  <<StageExe[i]>> \o StageLead[i] \o derived \o StageCaller(i)
                     \o StagePositional[i]

\* C8 witness: DBsplit, REPmask and DASqv ran with a derived flag and with
\* caller options
C8_Witness ==
    /\ Invoked(<<"D", "A", "S", "q", "v">>)
    /\ \A i \in {2, 4, 9} : DerivedCount(i) = 1 /\ Len(StageCaller(i)) > 0

\* the command line holds a configuration error
ConfigError ==
    \/ argv.repeat_depth <= 10
    \/ ~GsWellFormed(argv.genome_size)
    \/ GsNegative(argv.genome_size)
    \/ GsExpected(argv.genome_size) = {<<0>>}

Untouched ==
    /\ tempdir = "absent"
    /\ files = {}
    /\ ~input_opened
    /\ commands = <<>>
    /\ stdout = <<>>

\* C10: a configuration error (genome size unparseable or below 1, repeat
\* depth <= 1.0) or a missing tool (any of the twelve) ends the run fatally
\* with no temporary directory made, no file read or written and no stage
\* invoked; a run that made the directory or invoked a stage had neither.
C10_PreFlight ==
    /\ Cardinality(RequiredTools) = 12
    /\ (ConfigError /\ pc # "get_arguments") => (FatallyExited /\ Untouched)
    /\ missing_tools # {} => (FatallyExited /\ Untouched)
    /\ ~Untouched =>
         /\ ~ConfigError
         /\ missing_tools = {}
         /\ pc \notin {"get_arguments", "check_tools_exist"}

\* C10 witness: one tool, DB2fasta, was not found and the run ended untouched
C10_Witness ==
    /\ missing_tools = {<<"D", "B", "2", "f", "a", "s", "t", "a">>}
    /\ FatallyExited
    /\ Untouched

\* ------------------------------------------------------------------------
\* C11: the temporary directory after a failed stage and after a full run

StageFailed == \E i \in 1..Len(commands) : commands[i].rc # 0

Succeeded == pc = "exited" /\ exit_code = 0

\* C11 as stated: after a stage has exited non-zero the temporary directory
\* is still there when the keep flag was given and has been removed when it
\* was not; after a fully successful run it has been removed exactly when the
\* keep flag was not given.
C11_RemovedOnFailureUnlessKeep ==
    /\ (StageFailed /\ argv.keep) => (tempdir = "present" /\ files # {})
    /\ (StageFailed /\ ~argv.keep) => tempdir = "deleted"
    /\ Succeeded => (tempdir = "deleted" <=> ~argv.keep)

\* C11 as the code has it: after a stage has exited non-zero the temporary
\* directory and the files written so far are still there, whether or not
\* the keep flag was given; after a fully successful run the directory has
\* been removed, with its files, exactly when the keep flag was not given,
\* and is otherwise still there.
C11_LeftOnFailure ==
    /\ StageFailed =>
         /\ FatallyExited
         /\ tempdir = "present"
         /\ files # {}
    /\ Succeeded =>
         /\ ~StageFailed
         /\ args.keep = argv.keep
         /\ IF argv.keep
              THEN tempdir = "present" /\ files # {}
              ELSE tempdir = "deleted" /\ files = {}

\* C11 witness: DASqv failed in a run without the keep flag and the
\* temporary directory is still there
C11_Witness ==
    /\ ~argv.keep
    /\ Len(commands) = 9
    /\ commands[9].rc # 0
    /\ FatallyExited
    /\ tempdir = "present"

\* ------------------------------------------------------------------------
\* C12: the order of the external stages

StageCount == Len(StageExe)

BeforeStages ==
    pc \in {"get_arguments", "check_tools_exist", "check_files_and_directories",
            "create_temp_dir", "rename_reads", "read_loop"}

\* the input file has been read to its end and the depth has been computed
IngestionCompleted ==
    /\ IngestionDone
    /\ input_opened
    /\ Len(renamed_reads) = Len(input_records)
    /\ ~BeforeStages

Masked(i) ==
    /\ \E k \in 1..Len(commands[i].command) : commands[i].command[k] = <<"-", "m", "r", "e", "p">>
    /\ \E k \in 1..Len(commands[i].command) : commands[i].command[k] = <<"-", "m", "t", "a", "n">>

ReverseTranslationStarted ==
    \/ pc \in {"output_reads", "finish"}
    \/ scrubbed_names # <<>>
    \/ stdout # <<>>
    \/ Succeeded

\* C12: the i-th command ever run is the i-th stage of the fixed list
\* fasta2DB, DBsplit, daligner, REPmask, datander, TANmask, daligner with
\* the two masks, DAScover, DASqv, DAStrim, DASpatch, DASedit, DB2fasta (so
\* no stage is run twice, skipped or retried); the daligner run with the
\* masks is the seventh and only the seventh; a command is run only once
\* ingestion has completed and every command before it has exited with
\* status zero; and reverse translation has started only if all thirteen
\* have been run and DB2fasta exited with status zero.
C12_StageOrder ==
    /\ StageCount = 13
    /\ Len(commands) <= StageCount
    /\ \A i \in 1..Len(commands) :
         /\ Exe(i) = StageExe[i]
         /\ Masked(i) <=> i = 7
         /\ \A j \in 1..(i - 1) : commands[j].rc = 0
    /\ BeforeStages => commands = <<>>
    /\ commands # <<>> => IngestionCompleted
    /\ ReverseTranslationStarted =>
         /\ Len(commands) = StageCount
         /\ commands[StageCount].rc = 0

\* C12 witness: all thirteen stages were run, each exiting with zero, and
\* reverse translation has printed a read
C12_Witness ==
    /\ Len(commands) = StageCount
    /\ \A i \in 1..StageCount : commands[i].rc = 0
    /\ scrubbed_names # <<>>
    /\ stdout # <<>>

====
